---- MODULE Spec2Model ----
(***************************************************************************)
(* Credential and session engine of kenya_backend: AuthService with its    *)
(* PasswordService, TokenService and TwoFAService, and the users table it  *)
(* reads and writes.  Time is in seconds.  An Option<T> value is a set     *)
(* with at most one element: {} is None and {v} is Some(v).                *)
(***************************************************************************)
EXTENDS Integers, Sequences, FiniteSets, TLC

VARIABLES
    users,               \* the users table: username -> row
    now,                 \* Utc::now(), in seconds
    issued,              \* the access tokens handed to clients so far
    session_counter,     \* how many session ids generate_session_id has drawn
    new_login_attempts,  \* rows the latest request inserted into login_attempts
    new_security_events, \* rows the latest request inserted into security_events
    in_flight,           \* requests whose session check has passed, mutation pending
    last,                \* the latest request: its input, the row it found, its result
    wrong_run,           \* per user: wrong-password logins in a row since a fresh row
    generated_backup_codes, \* per user: the backup codes the latest setup_two_fa drew
    audit_fault          \* inserts into security_events fail for the time being

vars == <<users, now, issued, session_counter, new_login_attempts,
          new_security_events, in_flight, last, wrong_run,
          generated_backup_codes, audit_fault>>

(***************************************************************************)
(* Bounds of the model                                                     *)
(***************************************************************************)
MaxTime == 1800
MaxSessions == 2
MaxAttempts == 6
BackupCodeCount == 2
MaxInFlight == 1
MaxTwoFaSessions == 3
MaxTokens == 2
MaxAuditAttempts == 1
MaxAuditSessions == 1
MaxOnOffSessions == 1
MaxTotpTime == 120
MaxRunAttempts == 2

(***************************************************************************)
(* Program constants                                                       *)
(***************************************************************************)
LockoutThreshold == 5
LockoutMinutes == 5
SessionMinutes == 30
JwtExpirationHours == 8
Leeway == 60
ExpiresIn == 28800
TotpStep == 30

None == {}
Some(v) == {v}

TickSteps == {LockoutMinutes * 60, SessionMinutes * 60}

Usernames == {"kenya_government", "nobody"}
Passwords == {"Temp#Pass9word", "Other#Pass7word"}
InitialPassword == "Temp#Pass9word"
\* A password that the strength policy refuses (it is too short).
WeakPassword == "Short1!"
NewPasswords == Passwords \cup {WeakPassword}
\* The secret generate_secret draws, and one that it did not draw.
Secrets == {"c2VjcmV0LW9uZQ=="}
OtherSecret == "c2VjcmV0LXR3bw=="
BackupAlphabet == {"BKUPCD01", "BKUPCD02"}

(***************************************************************************)
(* PasswordService                                                         *)
(***************************************************************************)
\* A digest names its algorithm and is bound to the password it was made from.
Argon2Digest(password) == [alg |-> "argon2id", pw |-> password]
BcryptDigest(password) == [alg |-> "2b", pw |-> password]

\* PasswordHash::new: a PHC string parses; a bcrypt string ("$2b$12$...") does
\* not, its second field being too short for a salt.
PasswordHashParses(hash) == hash.alg = "argon2id"

\* bcrypt::verify: Ok(bool) on a bcrypt string, an error on any other string.
BcryptVerify(password, hash) ==
    IF hash.alg = "2b"
    THEN (IF hash.pw = password THEN "Ok(true)" ELSE "Ok(false)")
    ELSE "Err(InvalidCredentials)"

verify_password_with_context(password, hash) ==
    IF PasswordHashParses(hash) /\ hash.pw = password
    THEN "Ok(true)"
    ELSE BcryptVerify(password, hash)

verify_password(password, hash) == verify_password_with_context(password, hash)

passwords_are_same(new_password, current_hash) ==
    verify_password_with_context(new_password, current_hash) = "Ok(true)"

\* The characters of a password.
Chars(password) ==
    CASE password = "Temp#Pass9word" -> <<"T", "e", "m", "p", "#", "P", "a", "s", "s", "9", "w", "o", "r", "d">>
      [] password = "Other#Pass7word" -> <<"O", "t", "h", "e", "r", "#", "P", "a", "s", "s", "7", "w", "o", "r", "d">>
      [] password = "Short1!" -> <<"S", "h", "o", "r", "t", "1", "!">>

UppercaseLetters == <<"A", "B", "C", "D", "E", "F", "G", "H", "I", "J", "K", "L", "M", "N", "O", "P", "Q", "R", "S", "T", "U", "V", "W", "X", "Y", "Z">>
LowercaseLetters == <<"a", "b", "c", "d", "e", "f", "g", "h", "i", "j", "k", "l", "m", "n", "o", "p", "q", "r", "s", "t", "u", "v", "w", "x", "y", "z">>
Numbers == {"0", "1", "2", "3", "4", "5", "6", "7", "8", "9"}
SpecialChars == {"!", "@", "#", "$", "%", "^", "&", "*", "(", ")", "_", "+", "-", "=", "[", "]", "{", "}", "|", ";", ":", ",", ".", "<", ">", "?"}

UppercaseSet == {UppercaseLetters[k] : k \in 1..Len(UppercaseLetters)}
LowercaseSet == {LowercaseLetters[k] : k \in 1..Len(LowercaseLetters)}

is_uppercase(c) == c \in UppercaseSet
is_lowercase(c) == c \in LowercaseSet

\* the lowercase letter of each uppercase letter
LowercaseOf ==
    [c \in UppercaseSet |->
        LowercaseLetters[CHOOSE k \in 1..Len(UppercaseLetters) :
                             UppercaseLetters[k] = c]]

to_lowercase(chars) ==
    [i \in 1..Len(chars) |->
        IF is_uppercase(chars[i]) THEN LowercaseOf[chars[i]] ELSE chars[i]]

Contains(chars, pattern) ==
    \E start \in 0..(Len(chars) - Len(pattern)) :
        \A j \in 1..Len(pattern) : chars[start + j] = pattern[j]

\* PasswordPolicy::default
MinLength == 12
MaxRepeatingChars == 3
ForbiddenPatterns ==
    {<<"1", "2", "3">>,
     <<"a", "b", "c">>,
     <<"p", "a", "s", "s", "w", "o", "r", "d">>,
     <<"q", "w", "e", "r", "t", "y">>,
     <<"k", "e", "n", "y", "a">>,
     <<"g", "o", "v", "e", "r", "n", "m", "e", "n", "t">>}

\* count as the loop of has_excessive_repeating_chars holds it after index i
RECURSIVE RepeatCount(_, _)
RepeatCount(chars, i) ==
    IF i <= 1 THEN 1
    ELSE IF chars[i] = chars[i - 1] THEN RepeatCount(chars, i - 1) + 1
    ELSE 1

has_excessive_repeating_chars(chars) ==
    \E i \in 1..Len(chars) : RepeatCount(chars, i) > MaxRepeatingChars

validate_password_strength_LengthOnly(password) ==
    IF Len(Chars(password)) < 7 THEN "PasswordTooWeak" ELSE "Ok"

\* validate_password_strength of a password with these characters: whether
\* its list of errors ends non-empty
PolicyErrors(chars) ==
    \/ Len(chars) < MinLength
    \/ ~\E i \in 1..Len(chars) : is_uppercase(chars[i])
    \/ ~\E i \in 1..Len(chars) : is_lowercase(chars[i])
    \/ ~\E i \in 1..Len(chars) : chars[i] \in Numbers
    \/ ~\E i \in 1..Len(chars) : chars[i] \in SpecialChars
    \/ has_excessive_repeating_chars(chars)
    \/ \E pattern \in ForbiddenPatterns :
           Contains(to_lowercase(chars), to_lowercase(pattern))

validate_password_strength(password) ==
    IF PolicyErrors(Chars(password)) THEN "PasswordTooWeak" ELSE "Ok"

\* hash_password: the digests it may return for a password; none when it
\* returns Err(PasswordTooWeak).  Argon2 is tried first, bcrypt is the
\* fallback when the Argon2 hasher fails.
hash_password(password) ==
    IF validate_password_strength(password) # "Ok" THEN {}
    ELSE {Argon2Digest(password), BcryptDigest(password)}

\* The character sets of generate_temporary_password
TempNumbers == <<"0", "1", "2", "3", "4", "5", "6", "7", "8", "9">>
TempSpecial == <<"!", "@", "#", "$", "%", "^", "&", "*">>
AllChars == UppercaseLetters \o LowercaseLetters \o TempNumbers \o TempSpecial

\* chars.swap(i, j)
Swap(chars, i, j) ==
    [k \in 1..Len(chars) |->
        IF k = i THEN chars[j] ELSE IF k = j THEN chars[i] ELSE chars[k]]

\* the shuffle loop from index i on, swaps[i] being the j drawn at index i
RECURSIVE Shuffle(_, _, _)
Shuffle(chars, swaps, i) ==
    IF i > Len(chars) THEN chars
    ELSE Shuffle(Swap(chars, i, swaps[i]), swaps, i + 1)

\* generate_temporary_password with the numbers its random generator drew:
\* one index per required class, MinLength - 4 indices into all_chars, and
\* the index j of each swap.  Indices count from 1.
generate_temporary_password(draws) ==
    LET password ==
            <<UppercaseLetters[draws.class[1]], LowercaseLetters[draws.class[2]],
              TempNumbers[draws.class[3]], TempSpecial[draws.class[4]]>>
                \o [k \in 1..(MinLength - 4) |-> AllChars[draws.fill[k]]]
    IN  Shuffle(password, draws.swaps, 1)

\* hash_password of a password given by its characters
hash_password_chars(chars) ==
    IF PolicyErrors(chars) THEN {}
    ELSE {Argon2Digest(chars), BcryptDigest(chars)}

(***************************************************************************)
(* TwoFAService                                                            *)
(***************************************************************************)
\* A second-factor code as the request carries it: its format, and for a
\* six-digit code the secret and time step totp() derives it from (codes of
\* distinct secrets or steps are distinct).
TotpCode(secret, time) ==
    [fmt |-> "digits6", secret |-> secret, step |-> time \div TotpStep, text |-> ""]
BackupCode(text) == [fmt |-> "alnum8", secret |-> "", step |-> 0, text |-> text]
MalformedCode == [fmt |-> "other", secret |-> "", step |-> 0, text |-> "12345"]

SaturatingSub(a, b) == IF a >= b THEN a - b ELSE 0

\* generate_totp at time t with the offset the caller gave, if any
generate_totp(secret, time_offset, t) ==
    IF time_offset = None THEN TotpCode(secret, t)
    ELSE TotpCode(secret, t + CHOOSE offset \in time_offset : TRUE)

verify_totp_CurrentOnly(secret, code, t) ==
    TotpCode(secret, t) = code

verify_totp(secret, code, t) ==
    \E check_time \in {SaturatingSub(t, TotpStep), t, t + TotpStep} :
        TotpCode(secret, check_time) = code

RECURSIVE Position(_, _, _)
Position(codes, provided, i) ==
    IF i > Len(codes) THEN 0
    ELSE IF codes[i] = provided THEN i
    ELSE Position(codes, provided, i + 1)

RemoveAt(codes, index) ==
    [j \in 1..(Len(codes) - 1) |-> IF j < index THEN codes[j] ELSE codes[j + 1]]

\* <<matched, updated codes>>
verify_backup_code_KeepsCode(backup_codes, provided_code) ==
    <<Position(backup_codes, provided_code, 1) > 0, backup_codes>>

verify_backup_code(backup_codes, provided_code) ==
    LET index == Position(backup_codes, provided_code, 1)
    IN  IF index > 0
        THEN <<TRUE, RemoveAt(backup_codes, index)>>
        ELSE <<FALSE, backup_codes>>

generate_backup_codes(count) == [1..count -> BackupAlphabet]

generate_temp_token == "2fa_temp_uuid"

\* The characters "2fa_temp_"
TempTokenPrefix == <<"2", "f", "a", "_", "t", "e", "m", "p", "_">>

\* generate_temp_token: the texts format!("2fa_temp_{}", Uuid::new_v4()) gives,
\* the UUID in its hyphenated form of 36 characters with the version digit 4
\* and a variant digit; the other digits are drawn
GeneratedTempTokens ==
    LET hyphenated(digit, variant) ==
            [i \in 1..36 |->
                IF i \in {9, 14, 19, 24} THEN "-"
                ELSE IF i = 15 THEN "4"
                ELSE IF i = 20 THEN variant
                ELSE digit]
    IN  {TempTokenPrefix \o hyphenated(digit, variant) :
             digit \in {"0", "f"}, variant \in {"8", "b"}}

validate_temp_token_PrefixOnly(token) ==
    /\ Len(token) >= Len(TempTokenPrefix)
    /\ SubSeq(token, 1, Len(TempTokenPrefix)) = TempTokenPrefix

\* validate_temp_token: starts_with("2fa_temp_") and len() == 45, where len()
\* is the length of the string in bytes of UTF-8: one for each character
\* of ASCII, two for U+00E9
validate_temp_token(token) ==
    LET len == Len(token) + Cardinality({i \in 1..Len(token) : token[i] = "U+00E9"})
        starts_with == /\ Len(token) >= Len(TempTokenPrefix)
                       /\ SubSeq(token, 1, Len(TempTokenPrefix)) = TempTokenPrefix
    IN  starts_with /\ len = 45

(***************************************************************************)
(* TokenService                                                            *)
(***************************************************************************)
generate_session_id_Reused ==
    IF session_counter = 0 THEN session_counter + 1 ELSE session_counter

generate_session_id == session_counter + 1

generate_token(username, user, session_id, t) ==
    [sub |-> username, username |-> username, role |-> "kenya_government",
     exp |-> t + JwtExpirationHours * 3600, iat |-> t,
     iss |-> "fsfvi-kenya-backend", aud |-> "kenya-government",
     session_id |-> session_id, is_temp_password |-> user.is_temporary_password,
     signed |-> TRUE]

\* A string that this service did not sign.
ForgedToken ==
    [sub |-> "kenya_government", username |-> "kenya_government",
     role |-> "kenya_government", exp |-> MaxTime + JwtExpirationHours * 3600,
     iat |-> 0, iss |-> "fsfvi-kenya-backend", aud |-> "kenya-government",
     session_id |-> 1, is_temp_password |-> FALSE, signed |-> FALSE]

validate_claims(claims, t) ==
    IF claims.exp < t THEN "TokenExpired"
    ELSE IF claims.role # "kenya_government" THEN "Unauthorized"
    ELSE "Ok"

validate_token(token, t) ==
    IF ~token.signed THEN "InvalidToken"
    ELSE IF token.exp < t - Leeway THEN "TokenExpired"
    ELSE IF token.iss # "fsfvi-kenya-backend" \/ token.aud # "kenya-government"
         THEN "InvalidToken"
    ELSE validate_claims(token, t)

\* TokenValidation: what validate_token returns for the claims it decoded
TokenValidation_OwnSession(claims) ==
    [user_id |-> claims.sub, username |-> claims.username, role |-> claims.role,
     session_id |-> 0, is_temp_password |-> claims.is_temp_password,
     expires_at |-> claims.exp]

TokenValidation(claims) ==
    [user_id |-> claims.sub, username |-> claims.username, role |-> claims.role,
     session_id |-> claims.session_id, is_temp_password |-> claims.is_temp_password,
     expires_at |-> claims.exp]

(***************************************************************************)
(* AuthService                                                             *)
(***************************************************************************)
NewUser(digest) ==
    [password_hash |-> digest, is_temporary_password |-> TRUE,
     last_login |-> None, login_attempts |-> 0, is_locked |-> FALSE,
     lockout_expiry |-> None, session_token |-> None,
     session_expires_at |-> None, two_fa_enabled |-> FALSE,
     two_fa_secret |-> None, two_fa_backup_codes |-> None]

NoResponse ==
    [token |-> None, user |-> None, expires_in |-> 0,
     requires_two_fa |-> FALSE, two_fa_temp_token |-> None]

\* get_user_by_username / get_user_by_id: the row, or None
get_user(name) == IF name \in DOMAIN users THEN Some(users[name]) ELSE None

UnknownUsername_Unauthorized == "Unauthorized"

\* ok_or of get_user_by_username: the error for a username with no row
UnknownUsername == "InvalidCredentials"

IsLockedOut_Reversed(user, t) ==
    user.is_locked /\ \E exp \in user.lockout_expiry : exp < t

IsLockedOut_ByCount(user, t) ==
    user.login_attempts >= LockoutThreshold - 1

IsLockedOut(user, t) ==
    user.is_locked /\ \E exp \in user.lockout_expiry : exp > t

RecordFailure_LockAfterThreshold(user, t) ==
    LET attempts == user.login_attempts + 1
    IN  IF attempts > LockoutThreshold
        THEN [user EXCEPT !.login_attempts = attempts, !.is_locked = TRUE,
                          !.lockout_expiry = Some(t + LockoutMinutes * 60)]
        ELSE [user EXCEPT !.login_attempts = attempts]

RecordFailure_NoExpiry(user, t) ==
    LET attempts == user.login_attempts + 1
    IN  [user EXCEPT !.login_attempts = attempts,
                     !.is_locked = attempts >= LockoutThreshold]

RecordFailure(user, t) ==
    LET attempts == user.login_attempts + 1
    IN  IF attempts >= LockoutThreshold
        THEN [user EXCEPT !.login_attempts = attempts, !.is_locked = TRUE,
                          !.lockout_expiry = Some(t + LockoutMinutes * 60)]
        ELSE [user EXCEPT !.login_attempts = attempts]

ResetOnSuccess_KeepsLock(user, t) ==
    [user EXCEPT !.login_attempts = 0, !.last_login = Some(t)]

ResetOnSuccess(user, t) ==
    [user EXCEPT !.login_attempts = 0, !.is_locked = FALSE,
                 !.lockout_expiry = None, !.last_login = Some(t)]

NewSession(user, session_id, t) ==
    [user EXCEPT !.session_token = Some(session_id),
                 !.session_expires_at = Some(t + SessionMinutes * 60)]

TwoFaCheck_AnyDigits(user, code, t) ==
    IF code.fmt = "digits6"
    THEN <<user.two_fa_secret # None, user.two_fa_backup_codes>>
    ELSE IF code.fmt = "alnum8" /\ user.two_fa_backup_codes # None
    THEN LET stored == CHOOSE c \in user.two_fa_backup_codes : TRUE
             res == verify_backup_code(stored, code.text)
         IN  <<res[1], IF res[1] THEN Some(res[2]) ELSE user.two_fa_backup_codes>>
    ELSE <<FALSE, user.two_fa_backup_codes>>

\* <<is_valid, backup codes to persist>>
TwoFaCheck(user, code, t) ==
    IF code.fmt = "digits6"
    THEN <<\E secret \in user.two_fa_secret : verify_totp(secret, code, t),
           user.two_fa_backup_codes>>
    ELSE IF code.fmt = "alnum8" /\ user.two_fa_backup_codes # None
    THEN LET stored == CHOOSE c \in user.two_fa_backup_codes : TRUE
             res == verify_backup_code(stored, code.text)
         IN  <<res[1], IF res[1] THEN Some(res[2]) ELSE user.two_fa_backup_codes>>
    ELSE <<FALSE, user.two_fa_backup_codes>>

LoginRow(name, success, reason) ==
    [username |-> name, success |-> success, failure_reason |-> reason]

AuditRow(event_type, name, success) ==
    [event_type |-> event_type, user |-> name, success |-> success]

Request(op, name, password, code, token, found) ==
    [op |-> op, username |-> name, password |-> password, code |-> code,
     token |-> token, at |-> now, pre |-> found]

Outcome(req, status, response) ==
    [op |-> req.op, username |-> req.username, password |-> req.password,
     code |-> req.code, token |-> req.token, at |-> req.at, pre |-> req.pre,
     status |-> status, response |-> response]

\* The state a call leaves and the result it returns.
Effect(table, tokens, sessions, login_rows, events, status, response) ==
    [users |-> table, issued |-> tokens, session_counter |-> sessions,
     login_rows |-> login_rows, events |-> events, status |-> status,
     response |-> response]

Unchanged(status) ==
    Effect(users, issued, session_counter, <<>>, <<>>, status, NoResponse)

complete_login(table, name, user, session_id) ==
    LET token == generate_token(name, user, session_id, now)
    IN  Effect(table, issued \cup {token}, session_counter + 1,
               <<LoginRow(name, TRUE, "")>>,
               <<AuditRow("LOGIN_ATTEMPT", name, TRUE)>>,
               "Ok",
               [token |-> Some(token), user |-> Some(name), expires_in |-> ExpiresIn,
                requires_two_fa |-> FALSE, two_fa_temp_token |-> None])

\* authenticate from the reset of the counters on (the password has verified)
PasswordVerified(name, found, code) ==
    LET session_id == generate_session_id
        user == NewSession(ResetOnSuccess(found, now), session_id, now)
        table == [users EXCEPT ![name] = user]
    IN  IF user.two_fa_enabled
        THEN IF code # None
             THEN LET two_fa_code == CHOOSE c \in code : TRUE
                      check == TwoFaCheck(user, two_fa_code, now)
                      updated == [table EXCEPT ![name].two_fa_backup_codes = check[2]]
                  IN  IF ~check[1]
                      THEN Effect(table, issued, session_counter + 1,
                                  <<LoginRow(name, FALSE, "Invalid 2FA code")>>, <<>>,
                                  "InvalidCredentials", NoResponse)
                      ELSE complete_login(updated, name, user, session_id)
             ELSE Effect(table, issued, session_counter + 1, <<>>, <<>>, "Ok",
                         [token |-> None, user |-> Some(name), expires_in |-> 0,
                          requires_two_fa |-> TRUE,
                          two_fa_temp_token |-> Some(generate_temp_token)])
        ELSE complete_login(table, name, user, session_id)

authenticate(name, password, code) ==
    IF get_user(name) = None THEN Unchanged(UnknownUsername)
    ELSE LET user == users[name]
             password_valid == verify_password(password, user.password_hash)
         IN  IF IsLockedOut(user, now) THEN Unchanged("AccountLocked")
             ELSE IF password_valid = "Err(InvalidCredentials)"
             THEN Unchanged("InvalidCredentials")
             ELSE IF password_valid = "Ok(false)"
             THEN Effect([users EXCEPT ![name] = RecordFailure(user, now)],
                         issued, session_counter,
                         <<LoginRow(name, FALSE, "Invalid password")>>,
                         <<AuditRow("LOGIN_ATTEMPT", name, FALSE)>>,
                         "InvalidCredentials", NoResponse)
             ELSE PasswordVerified(name, user, code)

\* validate_session: <<status, user>>
SessionLive_NoExpiry(user, session_id, t) ==
    \E session_token \in user.session_token : session_token = session_id

SessionLive(user, session_id, t) ==
    \E session_token \in user.session_token :
        \E session_expires_at \in user.session_expires_at :
            session_token = session_id /\ session_expires_at > t

validate_session(token) ==
    LET token_validation == validate_token(token, now)
    IN  IF token_validation # "Ok" THEN <<token_validation, None>>
        ELSE IF get_user(token.sub) = None THEN <<"InvalidCredentials", None>>
        ELSE IF SessionLive(users[token.sub], token.session_id, now)
        THEN <<"Ok", Some(token.sub)>>
        ELSE <<"SessionExpired", None>>

ClearSession_WrongColumn(user) ==
    [user EXCEPT !.last_login = None]

ClearSession_TokenOnly(user) ==
    [user EXCEPT !.session_token = None]

ClearSession(user) ==
    [user EXCEPT !.session_token = None, !.session_expires_at = None]

logout_EveryRow(user_id) ==
    IF get_user(user_id) = None THEN Unchanged("InvalidCredentials")
    ELSE Effect([name \in DOMAIN users |-> ClearSession(users[name])],
                issued, session_counter, <<>>,
                <<AuditRow("LOGOUT", user_id, TRUE)>>, "Ok", NoResponse)

logout(user_id) ==
    IF get_user(user_id) = None THEN Unchanged("InvalidCredentials")
    ELSE Effect([users EXCEPT ![user_id] = ClearSession(users[user_id])],
                issued, session_counter, <<>>,
                <<AuditRow("LOGOUT", user_id, TRUE)>>, "Ok", NoResponse)

\* setup_two_fa with the secret and backup codes its generators drew
\* prepare_two_fa_setup with the secret generate_secret drew: the response
\* carries the secret, nothing is stored
prepare_two_fa_setup(user_id, secret, backup_codes) ==
    IF get_user(user_id) = None THEN Unchanged("InvalidCredentials")
    ELSE [Unchanged("Ok") EXCEPT
              !.response = [secret |-> secret, backup_codes |-> backup_codes,
                            enabled |-> FALSE]]

setup_two_fa(user_id, totp_code, secret, backup_codes) ==
    IF get_user(user_id) = None THEN Unchanged("InvalidCredentials")
    ELSE IF ~verify_totp(secret, totp_code, now) THEN Unchanged("InvalidCredentials")
    ELSE Effect([users EXCEPT ![user_id].two_fa_enabled = TRUE,
                              ![user_id].two_fa_secret = Some(secret),
                              ![user_id].two_fa_backup_codes = Some(backup_codes)],
                issued, session_counter, <<>>, <<>>, "Ok", NoResponse)

ClearTwoFa_KeepsSecret(user) ==
    [user EXCEPT !.two_fa_enabled = FALSE]

\* the UPDATE of disable_two_fa
ClearTwoFa(user) ==
    [user EXCEPT !.two_fa_enabled = FALSE, !.two_fa_secret = None,
                 !.two_fa_backup_codes = None]

disable_two_fa(user_id, password, totp_code, backup_code) ==
    IF get_user(user_id) = None THEN Unchanged("InvalidCredentials")
    ELSE LET user == users[user_id]
             password_valid == verify_password(password, user.password_hash)
             disabled ==
                 Effect([users EXCEPT ![user_id] = ClearTwoFa(user)],
                        issued, session_counter, <<>>, <<>>, "Ok", NoResponse)
         IN  IF password_valid = "Err(InvalidCredentials)"
             THEN Unchanged("InvalidCredentials")
             ELSE IF password_valid = "Ok(false)"
             THEN Unchanged("InvalidCredentials")
             ELSE IF totp_code # None
             THEN IF \E secret \in user.two_fa_secret, code \in totp_code :
                         ~verify_totp(secret, code, now)
                  THEN Unchanged("InvalidCredentials")
                  ELSE disabled
             ELSE IF backup_code # None
             THEN IF \E backup_codes \in user.two_fa_backup_codes, code \in backup_code :
                         ~verify_backup_code(backup_codes, code.text)[1]
                  THEN Unchanged("InvalidCredentials")
                  ELSE disabled
             ELSE Unchanged("InternalError")

verify_two_fa(temp_token) ==
    IF ~validate_temp_token(temp_token) THEN Unchanged("InvalidToken")
    ELSE Unchanged("InternalError")

\* change_password with the digest hash_password returned for the new password
UpdatePassword_KeepsFlag(user, password_hash) ==
    [user EXCEPT !.password_hash = password_hash]

\* update_user_password
UpdatePassword(user, password_hash) ==
    [user EXCEPT !.password_hash = password_hash, !.is_temporary_password = FALSE]

change_password_SameFirst(user_id, current_password, new_password, confirm_password, digest) ==
    IF get_user(user_id) = None THEN Unchanged("InvalidCredentials")
    ELSE LET user == users[user_id]
         IN  IF passwords_are_same(new_password, user.password_hash)
             THEN Unchanged("InternalError")
             ELSE IF new_password # confirm_password THEN Unchanged("PasswordMismatch")
             ELSE IF verify_password(current_password, user.password_hash) # "Ok(true)"
             THEN Unchanged("InvalidCredentials")
             ELSE IF validate_password_strength(new_password) # "Ok"
             THEN Unchanged("PasswordTooWeak")
             ELSE IF digest = None THEN Unchanged("PasswordTooWeak")
             ELSE Effect([users EXCEPT
                              ![user_id] = UpdatePassword(user, CHOOSE h \in digest : TRUE)],
                         issued, session_counter, <<>>,
                         <<AuditRow("PASSWORD_CHANGE", user_id, TRUE)>>,
                         "Ok", NoResponse)

change_password_CountsFailure(user_id, current_password, new_password, confirm_password, digest) ==
    IF new_password # confirm_password THEN Unchanged("PasswordMismatch")
    ELSE IF get_user(user_id) = None THEN Unchanged("InvalidCredentials")
    ELSE LET user == users[user_id]
             current_password_valid ==
                 verify_password(current_password, user.password_hash)
         IN  IF current_password_valid = "Err(InvalidCredentials)"
             THEN Unchanged("InvalidCredentials")
             ELSE IF current_password_valid = "Ok(false)"
             THEN [Unchanged("InvalidCredentials") EXCEPT
                       !.users = [users EXCEPT ![user_id] = RecordFailure(user, now)]]
             ELSE IF validate_password_strength(new_password) # "Ok"
             THEN Unchanged("PasswordTooWeak")
             ELSE IF passwords_are_same(new_password, user.password_hash)
             THEN Unchanged("InternalError")
             ELSE IF digest = None THEN Unchanged("PasswordTooWeak")
             ELSE Effect([users EXCEPT
                              ![user_id] = UpdatePassword(user, CHOOSE h \in digest : TRUE)],
                         issued, session_counter, <<>>,
                         <<AuditRow("PASSWORD_CHANGE", user_id, TRUE)>>,
                         "Ok", NoResponse)

change_password(user_id, current_password, new_password, confirm_password, digest) ==
    IF new_password # confirm_password THEN Unchanged("PasswordMismatch")
    ELSE IF get_user(user_id) = None THEN Unchanged("InvalidCredentials")
    ELSE LET user == users[user_id]
             current_password_valid ==
                 verify_password(current_password, user.password_hash)
         IN  IF current_password_valid = "Err(InvalidCredentials)"
             THEN Unchanged("InvalidCredentials")
             ELSE IF current_password_valid = "Ok(false)"
             THEN Unchanged("InvalidCredentials")
             ELSE IF validate_password_strength(new_password) # "Ok"
             THEN Unchanged("PasswordTooWeak")
             ELSE IF passwords_are_same(new_password, user.password_hash)
             THEN Unchanged("InternalError")
             ELSE IF digest = None THEN Unchanged("PasswordTooWeak")
             ELSE Effect([users EXCEPT
                              ![user_id] = UpdatePassword(user, CHOOSE h \in digest : TRUE)],
                         issued, session_counter, <<>>,
                         <<AuditRow("PASSWORD_CHANGE", user_id, TRUE)>>,
                         "Ok", NoResponse)

\* wrong_run after a login request for a row that exists: a matching password
\* ends the run, another password continues it or starts one on a fresh row.
NextRun(name, user, password) ==
    IF user.password_hash.pw = password THEN 0
    ELSE IF wrong_run[name] > LockoutThreshold THEN wrong_run[name]
    ELSE IF wrong_run[name] > 0 THEN wrong_run[name] + 1
    ELSE IF user.login_attempts = 0 /\ ~user.is_locked THEN 1
    ELSE 0

Init ==
    /\ \E digest \in {Argon2Digest(InitialPassword), BcryptDigest(InitialPassword)} :
           users = [name \in {"kenya_government"} |-> NewUser(digest)]
    /\ now = 0
    /\ issued = {}
    /\ session_counter = 0
    /\ new_login_attempts = <<>>
    /\ new_security_events = <<>>
    /\ in_flight = {}
    /\ last = Outcome(Request("start", "", "", None, None, None), "Ok", NoResponse)
    /\ wrong_run = [name \in {"kenya_government"} |-> 0]
    /\ generated_backup_codes = [name \in {"kenya_government"} |-> None]
    /\ audit_fault = FALSE

\* A users table to which the operator has added the row of a second user
InitTwoUsers ==
    /\ \E digest \in {Argon2Digest(InitialPassword), BcryptDigest(InitialPassword)} :
           users = [name \in {"kenya_government", "county_officer"} |-> NewUser(digest)]
    /\ now = 0
    /\ issued = {}
    /\ session_counter = 0
    /\ new_login_attempts = <<>>
    /\ new_security_events = <<>>
    /\ in_flight = {}
    /\ last = Outcome(Request("start", "", "", None, None, None), "Ok", NoResponse)
    /\ wrong_run = [name \in {"kenya_government", "county_officer"} |-> 0]
    /\ generated_backup_codes = [name \in {"kenya_government", "county_officer"} |-> None]
    /\ audit_fault = FALSE

\* A database without rows, before the first start of the server
InitEmpty ==
    /\ users = <<>>
    /\ now = 0
    /\ issued = {}
    /\ session_counter = 0
    /\ new_login_attempts = <<>>
    /\ new_security_events = <<>>
    /\ in_flight = {}
    /\ last = Outcome(Request("start", "", "", None, None, None), "Ok", NoResponse)
    /\ wrong_run = [name \in {"kenya_government"} |-> 0]
    /\ generated_backup_codes = [name \in {"kenya_government"} |-> None]
    /\ audit_fault = FALSE

\* The numbers the random generator may draw: "K", "a", "1" and "!" for the
\* required classes; for the rest, each of "a", "b", "c" four times and then
\* "x", "2", "n", "@"; for the shuffle, j = i at every index or j = 1 at
\* every index.
ClassDraws == {<<11, 1, 2, 1>>}
FillDraws ==
    {head \o <<50, 55, 40, 64>> : head \in [1..(MinLength - 8) -> {27, 28, 29}]}
SwapDraws == {[i \in 1..MinLength |-> i], [i \in 1..MinLength |-> 1]}
RngDraws ==
    {[class |-> class, fill |-> fill, swaps |-> swaps] :
         class \in ClassDraws, fill \in FillDraws, swaps \in SwapDraws}

\* initialize_default_user, as main calls it at each start of the server
InitializeDefaultUser(draws) ==
    LET user_count == Cardinality(DOMAIN users)
        temp_password == generate_temporary_password(draws)
        req == Request("initialize_default_user", "kenya_government", "", None, None,
                       get_user("kenya_government"))
    IN  /\ IF user_count = 0
           THEN \E password_hash \in
                       IF hash_password_chars(temp_password) = {} THEN {None}
                       ELSE {Some(h) : h \in hash_password_chars(temp_password)} :
                    /\ users' = IF password_hash = None THEN users
                                ELSE [name \in {"kenya_government"} |->
                                         NewUser(CHOOSE h \in password_hash : TRUE)]
                    /\ last' = Outcome(req,
                                       IF password_hash = None
                                       THEN "PasswordTooWeak" ELSE "Ok",
                                       NoResponse)
                                   @@ [user_count |-> user_count,
                                       temp_password |-> Some(temp_password)]
           ELSE /\ users' = users
                /\ last' = Outcome(req, "Ok", NoResponse)
                               @@ [user_count |-> user_count, temp_password |-> None]
        /\ new_login_attempts' = <<>>
        /\ new_security_events' = <<>>
        /\ UNCHANGED <<now, issued, session_counter, in_flight, wrong_run,
                       generated_backup_codes, audit_fault>>

Tick ==
    /\ \E d \in TickSteps : now + d <= MaxTime /\ now' = now + d
    /\ UNCHANGED <<users, issued, session_counter, new_login_attempts,
                   new_security_events, in_flight, last, wrong_run,
                   generated_backup_codes, audit_fault>>

AuditLogged_Propagates(eff) ==
    IF audit_fault /\ eff.events # <<>> THEN Unchanged("InternalError") ELSE eff

\* The calls of the audit service in a handler whose effect, were every insert
\* into security_events to succeed, is eff: a failed insert is written to the
\* process log by the caller's unwrap_or_else and the handler goes on.
AuditLogged(eff) ==
    IF audit_fault THEN [eff EXCEPT !.events = <<>>] ELSE eff

Apply(eff, req) ==
    LET done == AuditLogged(eff)
    IN  /\ users' = done.users
        /\ issued' = done.issued
        /\ session_counter' = done.session_counter
        /\ new_login_attempts' = done.login_rows
        /\ new_security_events' = done.events
        /\ last' = Outcome(req, done.status, done.response)

\* format!("{:?}", auth_error) of the derived Debug: the name of the variant
\* and, for InternalError, its string between quotes in parentheses.  Texts
\* are sequences of pieces; no piece here has a character Debug escapes.
DebugFormat(auth_error) ==
    IF auth_error.kind = "InternalError"
    THEN <<"InternalError(\"">> \o auth_error.detail \o <<"\")">>
    ELSE <<auth_error.kind>>

\* The JSON body the login handler answers an error of authenticate with
LoginErrorBody(auth_error) ==
    [success |-> FALSE,
     message |-> CASE auth_error.kind = "InvalidCredentials"
                          -> <<"Invalid username or password">>
                   [] auth_error.kind = "AccountLocked"
                          -> <<"Account is temporarily locked due to too many failed attempts">>
                   [] auth_error.kind = "TooManyAttempts"
                          -> <<"Too many login attempts. Please try again later">>
                   [] OTHER -> <<"Internal server error">>,
     error_type |-> DebugFormat(auth_error)]

\* POST /login while the users table cannot be read: the SELECT of
\* get_user_by_username fails with the sqlx error e, whose text map_err puts
\* after "Database error: ", and authenticate returns at its first `?` after
\* the rate limit
LoginDbFault(name, password, code, e) ==
    LET auth_error == [kind |-> "InternalError", detail |-> <<"Database error: ", e>>]
        eff == Unchanged(auth_error.kind)
    IN  /\ users' = eff.users
        /\ issued' = eff.issued
        /\ session_counter' = eff.session_counter
        /\ new_login_attempts' = eff.login_rows
        /\ new_security_events' = eff.events
        /\ last' = Outcome(Request("authenticate", name, password, code, None, None),
                           eff.status, eff.response)
                       @@ [detail |-> auth_error.detail,
                           body |-> LoginErrorBody(auth_error)]
        /\ UNCHANGED <<now, in_flight, wrong_run, generated_backup_codes, audit_fault>>

\* The security_events table stops taking inserts, or takes them again
AuditFault ==
    /\ audit_fault' = ~audit_fault
    /\ UNCHANGED <<users, now, issued, session_counter, new_login_attempts,
                   new_security_events, in_flight, last, wrong_run,
                   generated_backup_codes>>

\* The second-factor codes a client may send: the current code of the drawn
\* secret and of another secret, a code of the drawn secret three steps off,
\* each backup code, and a string of neither format.
TotpCodesOnOffer ==
    {TotpCode(secret, now) : secret \in Secrets \cup {OtherSecret}}
        \cup {TotpCode(secret, now + 3 * TotpStep) : secret \in Secrets}

CodesOnOffer ==
    TotpCodesOnOffer \cup {BackupCode(text) : text \in BackupAlphabet}
        \cup {MalformedCode}

\* The login requests clients send: an unknown username, the known one with
\* a password that is not its own, and the known one with its own password,
\* without a second-factor code and with one.  authenticate reads the code
\* only once the password has verified, and only on a row with 2FA; where it
\* is not read, one code stands for all of them.
CodesFor(name) ==
    IF users[name].two_fa_enabled
    THEN {None} \cup {Some(c) : c \in CodesOnOffer}
    ELSE {None, Some(MalformedCode)}

LoginRequests ==
    {<<"nobody", InitialPassword, None>>}
        \cup {<<"kenya_government", password, None>> :
                 password \in Passwords \ {InitialPassword}}
        \cup {<<"kenya_government", InitialPassword, code>> :
                 code \in CodesFor("kenya_government")}

\* POST /login
Login(name, password, code) ==
    LET found == get_user(name)
        eff == authenticate(name, password, code)
    IN  /\ eff.session_counter <=
               (IF found # None /\ users[name].two_fa_enabled
                THEN MaxTwoFaSessions ELSE MaxSessions)
        /\ \A other \in DOMAIN eff.users : eff.users[other].login_attempts <= MaxAttempts
        /\ Apply(eff, Request("authenticate", name, password, code, None, found))
        /\ wrong_run' =
               IF found = None THEN wrong_run
               ELSE [wrong_run EXCEPT ![name] = NextRun(name, users[name], password)]
        /\ UNCHANGED <<now, in_flight, generated_backup_codes, audit_fault>>

\* GET /verify
VerifyToken(token) ==
    LET res == validate_session(token)
    IN  /\ last' = Outcome(Request("validate_session", token.sub, "", None,
                                   Some(token), get_user(token.sub)),
                           res[1], [NoResponse EXCEPT !.user = res[2]])
        /\ new_login_attempts' = <<>>
        /\ new_security_events' = <<>>
        /\ UNCHANGED <<users, now, issued, session_counter, in_flight, wrong_run,
                       generated_backup_codes, audit_fault>>

\* POST /logout
Logout(token) ==
    LET res == validate_session(token)
        req == Request("logout", token.sub, "", None, Some(token), get_user(token.sub))
        eff == AuditLogged(IF res[1] = "Ok" THEN logout(token.sub)
                           ELSE Unchanged(res[1]))
        \* "success" of the JSON body: true when validate_session failed,
        \* and true when AuthService::logout returned Ok
        success == res[1] # "Ok" \/ eff.status = "Ok"
    IN  /\ users' = eff.users
        /\ issued' = eff.issued
        /\ session_counter' = eff.session_counter
        /\ new_login_attempts' = eff.login_rows
        /\ new_security_events' = eff.events
        /\ last' = Outcome(req, eff.status, eff.response) @@ [success |-> success]
        /\ UNCHANGED <<now, in_flight, wrong_run, generated_backup_codes, audit_fault>>

\* POST /2fa/setup, up to the session check: the lock is released after it
SetupTwoFaCheck(token, totp_code) ==
    LET res == validate_session(token)
        req == Request("setup_two_fa_check", token.sub, "", Some(totp_code),
                       Some(token), get_user(token.sub))
    IN  /\ Cardinality(in_flight) < MaxInFlight \/ res[1] # "Ok"
        /\ in_flight' = IF res[1] = "Ok"
                        THEN in_flight \cup {[op |-> "setup_two_fa", user_id |-> token.sub,
                                              code |-> totp_code]}
                        ELSE in_flight
        /\ last' = Outcome(req, res[1], NoResponse)
        /\ new_login_attempts' = <<>>
        /\ new_security_events' = <<>>
        /\ UNCHANGED <<users, now, issued, session_counter, wrong_run,
                       generated_backup_codes, audit_fault>>

\* POST /2fa/setup, from the second taking of the lock on
SetupTwoFa(pending) ==
    /\ pending.op = "setup_two_fa"
    /\ \E secret \in Secrets, backup_codes \in generate_backup_codes(BackupCodeCount) :
           LET eff == setup_two_fa(pending.user_id, pending.code, secret, backup_codes)
           IN  /\ Apply(eff, Request("setup_two_fa", pending.user_id, "",
                                     Some(pending.code), None,
                                     get_user(pending.user_id)))
               /\ generated_backup_codes' =
                      IF eff.status = "Ok"
                      THEN [generated_backup_codes EXCEPT
                                ![pending.user_id] = Some(backup_codes)]
                      ELSE generated_backup_codes
    /\ in_flight' = in_flight \ {pending}
    /\ UNCHANGED <<now, wrong_run, audit_fault>>

\* The change-password requests clients send: each current password with each
\* new password, confirmed by the same string and by another one.
ChangeRequests ==
    {req \in Passwords \X NewPasswords \X NewPasswords :
         req[3] \in {req[2], "Other#Pass7word"}}

\* The login requests of users who know their own password and have no
\* second factor.
OwnPasswordLoginRequests ==
    {<<name, users[name].password_hash.pw, None>> : name \in DOMAIN users}

\* The login requests that reach the second-factor step or stop at an unknown
\* username: those of LoginRequests that carry the initial password.
TwoFaLoginRequests == {req \in LoginRequests : req[2] = InitialPassword}

\* POST /change-password, up to the session check: the lock is released after it
ChangePasswordCheck(token, current_password, new_password, confirm_password) ==
    LET res == validate_session(token)
        req == Request("change_password_check", token.sub, current_password, None,
                       Some(token), get_user(token.sub))
    IN  /\ Cardinality(in_flight) < MaxInFlight \/ res[1] # "Ok"
        /\ in_flight' = IF res[1] = "Ok"
                        THEN in_flight \cup
                                 {[op |-> "change_password", user_id |-> token.sub,
                                   current_password |-> current_password,
                                   new_password |-> new_password,
                                   confirm_password |-> confirm_password]}
                        ELSE in_flight
        /\ last' = Outcome(req, res[1], NoResponse)
        /\ new_login_attempts' = <<>>
        /\ new_security_events' = <<>>
        /\ UNCHANGED <<users, now, issued, session_counter, wrong_run,
                       generated_backup_codes, audit_fault>>

\* POST /change-password, from the second taking of the lock on
ChangePassword(pending) ==
    /\ pending.op = "change_password"
    /\ \E digest \in IF hash_password(pending.new_password) = {}
                      THEN {None}
                      ELSE {Some(h) : h \in hash_password(pending.new_password)} :
           LET eff == AuditLogged(
                          change_password(pending.user_id, pending.current_password,
                                          pending.new_password,
                                          pending.confirm_password, digest))
               req == Request("change_password", pending.user_id,
                              pending.current_password, None, None,
                              get_user(pending.user_id))
           IN  /\ users' = eff.users
               /\ new_login_attempts' = eff.login_rows
               /\ new_security_events' = eff.events
               /\ last' = Outcome(req, eff.status, eff.response)
                              @@ [new_password |-> pending.new_password,
                                  confirm_password |-> pending.confirm_password]
    /\ in_flight' = in_flight \ {pending}
    /\ UNCHANGED <<now, issued, session_counter, wrong_run, generated_backup_codes, audit_fault>>

\* The requests to switch the second factor off: either password, with a
\* six-digit code, else with a backup code, else with neither.
DisableRequests ==
    {<<password, Some(code), None>> :
         password \in Passwords, code \in TotpCodesOnOffer}
        \cup {<<password, None, Some(BackupCode(text))>> :
                 password \in Passwords, text \in BackupAlphabet}
        \cup {<<password, None, None>> : password \in Passwords}

\* POST /2fa/disable, up to the session check: the lock is released after it
DisableTwoFaCheck(token, password, totp_code, backup_code) ==
    LET res == validate_session(token)
        req == Request("disable_two_fa_check", token.sub, password, totp_code,
                       Some(token), get_user(token.sub))
    IN  /\ Cardinality(in_flight) < MaxInFlight \/ res[1] # "Ok"
        /\ in_flight' = IF res[1] = "Ok"
                        THEN in_flight \cup
                                 {[op |-> "disable_two_fa", user_id |-> token.sub,
                                   password |-> password, totp_code |-> totp_code,
                                   backup_code |-> backup_code]}
                        ELSE in_flight
        /\ last' = Outcome(req, res[1], NoResponse)
        /\ new_login_attempts' = <<>>
        /\ new_security_events' = <<>>
        /\ UNCHANGED <<users, now, issued, session_counter, wrong_run,
                       generated_backup_codes, audit_fault>>

\* POST /2fa/disable, from the second taking of the lock on
DisableTwoFa(pending) ==
    /\ pending.op = "disable_two_fa"
    /\ Apply(disable_two_fa(pending.user_id, pending.password, pending.totp_code,
                            pending.backup_code),
             Request("disable_two_fa", pending.user_id, pending.password,
                     pending.totp_code, None, get_user(pending.user_id)))
    /\ in_flight' = in_flight \ {pending}
    /\ UNCHANGED <<now, wrong_run, generated_backup_codes, audit_fault>>

\* The instants at which tokens are made and checked: the start, and the
\* instants around the expiry and the leeway of a token made at the start.
TokenInstants ==
    {0,
     JwtExpirationHours * 3600 - 1,
     JwtExpirationHours * 3600,
     JwtExpirationHours * 3600 + 1,
     JwtExpirationHours * 3600 + Leeway,
     JwtExpirationHours * 3600 + Leeway + 1}

AdvanceClock ==
    /\ \E t \in TokenInstants : t > now /\ now' = t
    /\ UNCHANGED <<users, issued, session_counter, new_login_attempts,
                   new_security_events, in_flight, last, wrong_run,
                   generated_backup_codes, audit_fault>>

\* generate_token for a user and a session id, and validate_token of its result
GenerateThenValidate(name, session_id) ==
    LET token == generate_token(name, users[name], session_id, now)
        req == Request("generate_token", name, "", None, Some(token), get_user(name))
    IN  /\ Cardinality(issued \cup {token}) <= MaxTokens
        /\ issued' = issued \cup {token}
        /\ last' = Outcome(req, validate_token(token, now), NoResponse)
                       @@ [session_id |-> session_id,
                           validation |-> TokenValidation(token)]
        /\ new_login_attempts' = <<>>
        /\ new_security_events' = <<>>
        /\ UNCHANGED <<users, now, session_counter, in_flight, wrong_run,
                       generated_backup_codes, audit_fault>>

\* validate_token of a token made earlier, or of a string this service did not sign
ValidateToken(token) ==
    /\ last' = Outcome(Request("validate_token", token.sub, "", None, Some(token),
                               get_user(token.sub)),
                       validate_token(token, now), NoResponse)
                   @@ [session_id |-> token.session_id,
                       validation |-> TokenValidation(token)]
    /\ new_login_attempts' = <<>>
    /\ new_security_events' = <<>>
    /\ UNCHANGED <<users, now, issued, session_counter, in_flight, wrong_run,
                   generated_backup_codes, audit_fault>>

\* Requests of a deployment whose users log in by password
Next ==
    \/ Tick
    \/ \E req \in LoginRequests : Login(req[1], req[2], req[3])
    \/ \E token \in issued \cup {ForgedToken} : VerifyToken(token)
    \/ \E token \in issued \cup {ForgedToken} : Logout(token)

Spec == Init /\ [][Next]_vars

\* Requests of a deployment whose users switch the second factor on
NextTwoFa ==
    \/ \E req \in TwoFaLoginRequests : Login(req[1], req[2], req[3])
    \/ \E token \in issued \cup {ForgedToken} :
           \E code \in TotpCodesOnOffer : SetupTwoFaCheck(token, code)
    \/ \E pending \in in_flight : SetupTwoFa(pending)

SpecTwoFa == Init /\ [][NextTwoFa]_vars

\* Requests of a deployment whose users change their passwords
NextPassword ==
    \/ \E req \in OwnPasswordLoginRequests : Login(req[1], req[2], req[3])
    \/ \E token \in issued \cup {ForgedToken} :
           \E req \in ChangeRequests :
               ChangePasswordCheck(token, req[1], req[2], req[3])
    \/ \E pending \in in_flight : ChangePassword(pending)

SpecPassword == Init /\ [][NextPassword]_vars

\* TokenService used on its own
NextToken ==
    \/ AdvanceClock
    \/ \E name \in DOMAIN users : \E session_id \in 1..MaxSessions :
           GenerateThenValidate(name, session_id)
    \/ \E token \in issued \cup {ForgedToken} : ValidateToken(token)

SpecToken == Init /\ [][NextToken]_vars

\* The change-password requests that replace one password of the policy by
\* another one, confirmed.
ConfirmedChangeRequests ==
    {req \in ChangeRequests :
         req[2] = req[3] /\ req[2] # WeakPassword /\ req[2] # req[1]}

\* The offsets generate_totp is called with: none, and one and three steps
\* into the past and the future.
TotpOffsets ==
    {None} \cup {Some(k * TotpStep) : k \in {-3, -1, 1, 3}}

TotpClock ==
    /\ \E d \in {TotpStep - 1, TotpStep} : now + d <= MaxTotpTime /\ now' = now + d
    /\ UNCHANGED <<users, issued, session_counter, new_login_attempts,
                   new_security_events, in_flight, last, wrong_run,
                   generated_backup_codes, audit_fault>>

\* generate_totp for a secret, at the clock's time moved by the offset
GenerateTotp(secret, time_offset) ==
    LET code == generate_totp(secret, time_offset, now)
    IN  /\ \A offset \in time_offset : now + offset >= 0
        /\ last' = Outcome(Request("generate_totp", "", "", Some(code), None, None),
                           "Ok", NoResponse)
                       @@ [secret |-> secret,
                           for_time |-> IF time_offset = None THEN now
                                        ELSE now + CHOOSE offset \in time_offset : TRUE]
        /\ new_login_attempts' = <<>>
        /\ new_security_events' = <<>>
        /\ UNCHANGED <<users, now, issued, session_counter, in_flight, wrong_run,
                       generated_backup_codes, audit_fault>>

\* verify_totp of the code generated last, with the secret given
VerifyTotp(secret) ==
    /\ last.op \in {"generate_totp", "verify_totp"}
    /\ \E code \in last.code :
           last' = Outcome(Request("verify_totp", "", "", Some(code), None, None),
                           IF verify_totp(secret, code, now)
                           THEN "Ok(true)" ELSE "Ok(false)",
                           NoResponse)
                       @@ [secret |-> secret, for_time |-> last.for_time]
    /\ new_login_attempts' = <<>>
    /\ new_security_events' = <<>>
    /\ UNCHANGED <<users, now, issued, session_counter, in_flight, wrong_run,
                   generated_backup_codes, audit_fault>>

\* The pending-login tokens clients send to POST /2fa/verify: those
\* generate_temp_token returns, each of them cut by a character, longer by
\* one, and under another prefix; after the right prefix 18 characters of
\* two bytes, and 36 characters of which one has two bytes; the empty string.
TempTokensOnOffer ==
    LET two_bytes(n) == [i \in 1..n |-> "U+00E9"]
    IN  GeneratedTempTokens
            \cup {SubSeq(token, 1, Len(token) - 1) : token \in GeneratedTempTokens}
            \cup {token \o <<"0">> : token \in GeneratedTempTokens}
            \cup {<<"3">> \o Tail(token) : token \in GeneratedTempTokens}
            \cup {TempTokenPrefix \o two_bytes(18)}
            \cup {SubSeq(token, 1, Len(token) - 1) \o two_bytes(1) :
                     token \in GeneratedTempTokens}
            \cup {<<>>}

\* POST /2fa/verify
VerifyTwoFa(temp_token, totp_code) ==
    LET eff == verify_two_fa(temp_token)
    IN  /\ users' = eff.users
        /\ issued' = eff.issued
        /\ session_counter' = eff.session_counter
        /\ new_login_attempts' = eff.login_rows
        /\ new_security_events' = eff.events
        /\ last' = Outcome(Request("verify_two_fa", "", "", Some(totp_code), None, None),
                           eff.status, eff.response)
                       @@ [temp_token |-> temp_token]
        /\ UNCHANGED <<now, in_flight, wrong_run, generated_backup_codes, audit_fault>>

\* TwoFAService used on its own, and behind POST /2fa/verify
NextTotp ==
    \/ \E temp_token \in TempTokensOnOffer :
           \E totp_code \in {TotpCode(secret, now) : secret \in Secrets} \cup {MalformedCode} :
               VerifyTwoFa(temp_token, totp_code)
    \/ TotpClock
    \/ \E secret \in Secrets, time_offset \in TotpOffsets :
           GenerateTotp(secret, time_offset)
    \/ \E secret \in Secrets \cup {OtherSecret} : VerifyTotp(secret)

SpecTotp == Init /\ [][NextTotp]_vars

\* Starts of the server on a database that begins without rows
NextBootstrap ==
    \E draws \in RngDraws : InitializeDefaultUser(draws)

SpecBootstrap == InitEmpty /\ [][NextBootstrap]_vars

\* GET /2fa/prepare: the session check, then prepare_two_fa_setup under a
\* second locking, which reads the row and writes nothing
PrepareTwoFaSetup(token, secret) ==
    LET res == validate_session(token)
        req == Request("prepare_two_fa_setup", token.sub, "", None, Some(token),
                       get_user(token.sub))
    IN  \E backup_codes \in generate_backup_codes(BackupCodeCount) :
            LET eff == IF res[1] = "Ok"
                       THEN prepare_two_fa_setup(token.sub, secret, backup_codes)
                       ELSE Unchanged(res[1])
            IN  /\ Apply(eff, req)
                /\ UNCHANGED <<now, in_flight, wrong_run, generated_backup_codes,
                               audit_fault>>

\* A POST /login has come in on a connection and waits for the lock on
\* auth_service.  seen is the row as it is now, which the request has not
\* read: authenticate reads it under the lock.
LoginArrive(conn, name, password, code) ==
    /\ \A pending \in in_flight : pending.conn # conn
    /\ in_flight' = in_flight \cup
                        {[op |-> "authenticate", conn |-> conn, username |-> name,
                          password |-> password, code |-> code,
                          seen |-> get_user(name)]}
    /\ UNCHANGED <<users, now, issued, session_counter, new_login_attempts,
                   new_security_events, last, wrong_run, generated_backup_codes,
                   audit_fault>>

LoginRun_StaleRead(pending) ==
    LET name == pending.username
        eff == authenticate(name, pending.password, pending.code)
        stale == IF eff.status = "InvalidCredentials" /\ eff.login_rows # <<>>
                 THEN [users EXCEPT ![name] =
                          RecordFailure(CHOOSE row \in pending.seen : TRUE, now)]
                 ELSE eff.users
    IN  /\ pending.op = "authenticate"
        /\ eff.session_counter <= MaxOnOffSessions
        /\ \A other \in DOMAIN stale : stale[other].login_attempts <= MaxRunAttempts
        /\ users' = stale
        /\ issued' = eff.issued
        /\ session_counter' = eff.session_counter
        /\ new_login_attempts' = eff.login_rows
        /\ new_security_events' = eff.events
        /\ last' = Outcome(Request("authenticate", name, pending.password,
                                   pending.code, None, get_user(name)),
                           eff.status, eff.response)
                       @@ [seen |-> pending.seen]
        /\ wrong_run' = wrong_run
        /\ in_flight' = in_flight \ {pending}
        /\ UNCHANGED <<now, generated_backup_codes, audit_fault>>

\* The waiting POST /login has the lock: the handler holds the guard from
\* before authenticate is called until its result is matched, so the read of
\* the row and its write-back are one step
LoginRun(pending) ==
    LET name == pending.username
        found == get_user(name)
        eff == AuditLogged(authenticate(name, pending.password, pending.code))
    IN  /\ pending.op = "authenticate"
        /\ eff.session_counter <= MaxOnOffSessions
        /\ \A other \in DOMAIN eff.users :
               eff.users[other].login_attempts <= MaxRunAttempts
        /\ users' = eff.users
        /\ issued' = eff.issued
        /\ session_counter' = eff.session_counter
        /\ new_login_attempts' = eff.login_rows
        /\ new_security_events' = eff.events
        /\ last' = Outcome(Request("authenticate", name, pending.password,
                                   pending.code, None, found),
                           eff.status, eff.response)
                       @@ [seen |-> pending.seen]
        /\ wrong_run' =
               IF found = None THEN wrong_run
               ELSE [wrong_run EXCEPT
                         ![name] = NextRun(name, users[name], pending.password)]
        /\ in_flight' = in_flight \ {pending}
        /\ UNCHANGED <<now, generated_backup_codes, audit_fault>>

\* Logins that come in on two connections of one server process at a time
NextLogins ==
    \/ \E conn \in {"connection 1", "connection 2"} :
           \E req \in {r \in LoginRequests : r[3] = None} :
               LoginArrive(conn, req[1], req[2], req[3])
    \/ \E pending \in in_flight : LoginRun(pending)

SpecLogins == Init /\ [][NextLogins]_vars

\* Requests of two users.  The users are alike, so one of them stands for
\* the user who sends requests to every endpoint that writes, and the other
\* for any other user, who has logged in or has not.
NextTwoUsers ==
    \/ \E req \in OwnPasswordLoginRequests :
           Login(req[1], req[2], req[3]) /\ session_counter' <= MaxSessions
    \/ \E token \in issued : token.sub = "kenya_government" /\ Logout(token)
    \/ \E token \in issued :
           \E req \in ConfirmedChangeRequests :
               /\ token.sub = "kenya_government" /\ req[1] = InitialPassword
               /\ ChangePasswordCheck(token, req[1], req[2], req[3])
    \/ \E pending \in in_flight : ChangePassword(pending)
    \/ \E token \in issued :
           \E code \in {TotpCode(secret, now) : secret \in Secrets} :
               token.sub = "kenya_government" /\ SetupTwoFaCheck(token, code)
    \/ \E pending \in in_flight : SetupTwoFa(pending)
    \/ \E token \in issued :
           \E req \in DisableRequests :
               /\ token.sub = "kenya_government"
               /\ req[1] = users[token.sub].password_hash.pw
               /\ \E secret \in Secrets : req[2] = Some(TotpCode(secret, now))
               /\ DisableTwoFaCheck(token, req[1], req[2], req[3])
    \/ \E pending \in in_flight : DisableTwoFa(pending)

SpecTwoUsers == InitTwoUsers /\ [][NextTwoUsers]_vars

\* Requests of a user who prepares the second factor, reads the secret of the
\* response into an authenticator and submits the code it shows.  The secret
\* of the response is the one setup_two_fa will draw, or another one.
NextPrepare ==
    \/ \E req \in OwnPasswordLoginRequests :
           Login(req[1], req[2], req[3]) /\ session_counter' <= MaxOnOffSessions
    \/ \E token \in issued \cup {ForgedToken}, secret \in Secrets \cup {OtherSecret} :
           PrepareTwoFaSetup(token, secret)
    \/ \E token \in issued :
           /\ last.op = "prepare_two_fa_setup" /\ last.status = "Ok"
           /\ SetupTwoFaCheck(token, TotpCode(last.response.secret, now))
    \/ \E pending \in in_flight : SetupTwoFa(pending)

SpecPrepare == Init /\ [][NextPrepare]_vars

\* Requests of a deployment whose users switch the second factor on and off
NextTwoFaOnOff ==
    \/ \E req \in OwnPasswordLoginRequests :
           Login(req[1], req[2], req[3]) /\ session_counter' <= MaxOnOffSessions
    \/ \E token \in issued \cup {ForgedToken} :
           \E code \in TotpCodesOnOffer : SetupTwoFaCheck(token, code)
    \/ \E pending \in in_flight : SetupTwoFa(pending)
    \/ \E token \in issued \cup {ForgedToken} :
           \E req \in DisableRequests :
               DisableTwoFaCheck(token, req[1], req[2], req[3])
    \/ \E pending \in in_flight : DisableTwoFa(pending)

SpecTwoFaOnOff == Init /\ [][NextTwoFaOnOff]_vars

\* Requests of a deployment whose security_events table fails at times, and
\* whose users table does at others
NextAudit ==
    \/ AuditFault
    \/ \E req \in LoginRequests :
           \E e \in {"pool timed out while waiting for an open connection",
                     "error returned from database: (code: 5) database is locked"} :
               LoginDbFault(req[1], req[2], req[3], e)
    \/ \E req \in LoginRequests :
           /\ Login(req[1], req[2], req[3])
           /\ session_counter' <= MaxAuditSessions
           /\ \A name \in DOMAIN users : users'[name].login_attempts <= MaxAuditAttempts
    \/ \E token \in issued \cup {ForgedToken} : Logout(token)
    \/ \E token \in issued \cup {ForgedToken} :
           \E req \in ConfirmedChangeRequests :
               ChangePasswordCheck(token, req[1], req[2], req[3])
    \/ \E pending \in in_flight : ChangePassword(pending)

SpecAudit == Init /\ [][NextAudit]_vars

(***************************************************************************)
(* Properties                                                              *)
(***************************************************************************)
\* The latest request was authenticate for a row that exists.
LoginOf(pre) == last.op = "authenticate" /\ pre \in last.pre

PasswordMatches(pre) == pre.password_hash.pw = last.password

LockInForce(pre) == pre.is_locked /\ \E exp \in pre.lockout_expiry : exp > last.at

Row == users[last.username]

\* C1: for an existing user that is not locked out, a login whose password
\* does not match the stored digest returns InvalidCredentials and leaves
\* login_attempts exactly one higher, whichever algorithm made the digest.
C1_WrongPasswordCounted ==
    \A pre \in last.pre :
        (LoginOf(pre) /\ ~LockInForce(pre) /\ ~PasswordMatches(pre))
            => /\ last.status = "InvalidCredentials"
               /\ Row.login_attempts = pre.login_attempts + 1

\* The latest request was the k-th wrong-password login of a run that began
\* on a fresh row.
WrongLoginNumber(k) ==
    /\ last.op = "authenticate"
    /\ last.username \in DOMAIN users
    /\ wrong_run[last.username] = k
    /\ \A pre \in last.pre : ~PasswordMatches(pre)

\* C2: after exactly five wrong-password logins in a row from login_attempts
\* = 0 the row is locked with lockout_expiry five minutes after the fifth;
\* after fewer than five it is not locked.
C2_FiveFailuresLock ==
    /\ WrongLoginNumber(LockoutThreshold)
           => /\ Row.is_locked
              /\ Row.lockout_expiry = Some(last.at + LockoutMinutes * 60)
    /\ \A k \in 1..(LockoutThreshold - 1) : WrongLoginNumber(k) => ~Row.is_locked

\* C3: while the lock is in force a login returns AccountLocked, also with
\* the right password, and leaves the row as it was.
C3_LockedLoginRefused ==
    \A pre \in last.pre :
        (LoginOf(pre) /\ LockInForce(pre))
            => last.status = "AccountLocked" /\ Row = pre

C3_Witness ==
    \E pre \in last.pre :
        /\ LoginOf(pre) /\ LockInForce(pre) /\ PasswordMatches(pre)
        /\ last.status = "AccountLocked"

\* C4: a locked row whose lockout_expiry is not in the future any more accepts
\* the right password (second factor off): the login succeeds and leaves
\* login_attempts = 0, is_locked = false and lockout_expiry = None.
C4_LockExpires ==
    \A pre \in last.pre :
        (/\ LoginOf(pre) /\ pre.is_locked /\ ~LockInForce(pre)
         /\ PasswordMatches(pre) /\ ~pre.two_fa_enabled)
            => /\ last.status = "Ok"
               /\ last.response.token # None
               /\ Row.login_attempts = 0
               /\ ~Row.is_locked
               /\ Row.lockout_expiry = None

C4_Witness ==
    \E pre \in last.pre :
        /\ LoginOf(pre) /\ pre.is_locked /\ PasswordMatches(pre)
        /\ \E exp \in pre.lockout_expiry : last.at > exp
        /\ last.status = "Ok" /\ ~Row.is_locked

C6_NoRelockAfterExpiry ==
    \A pre \in last.pre :
        (/\ LoginOf(pre) /\ pre.is_locked /\ ~LockInForce(pre)
         /\ ~PasswordMatches(pre))
            => ~(Row.is_locked /\ \E exp \in Row.lockout_expiry : exp > now)

\* The session check of validate_session on the row the request found.
SessionMatches(pre, token) ==
    /\ pre.session_token = Some(token.session_id)
    /\ \E session_expires_at \in pre.session_expires_at : session_expires_at > last.at

\* C7: validate_session returns the user only for a token that verifies, whose
\* session id is the stored session_token and whose stored session_expires_at
\* is later than now; a token that verifies but fails one of these, or finds
\* the session fields null, gets SessionExpired.
C7_SessionCrossCheck ==
    last.op = "validate_session" =>
        \A token \in last.token : \A pre \in last.pre :
            LET verifies == validate_token(token, last.at) = "Ok"
            IN  /\ last.status = "Ok" <=> (verifies /\ SessionMatches(pre, token))
                /\ last.status = "Ok" => last.response.user = Some(token.sub)
                /\ (verifies /\ ~SessionMatches(pre, token))
                       => last.status = "SessionExpired"

C7_Witness ==
    /\ last.op = "validate_session"
    /\ last.status = "SessionExpired"
    /\ \E token \in last.token : \E pre \in last.pre :
           /\ validate_token(token, last.at) = "Ok"
           /\ pre.session_token = Some(token.session_id)
           /\ \E session_expires_at \in pre.session_expires_at :
                  session_expires_at <= last.at

Refused(token) == validate_session(token)[1] = "SessionExpired"

\* C8: after logout succeeds, validate_session answers SessionExpired for each
\* token issued to that user before it, and goes on doing so at every later
\* time, the token's own expiry not having passed.
C8_LogoutRevokes ==
    [][/\ (last'.op = "logout" /\ last'.status = "Ok")
           => \A token \in issued : token.sub = last'.username => Refused(token)'
       /\ \A token \in issued : Refused(token) => Refused(token)']_vars

C8_Witness ==
    /\ last.op = "validate_session"
    /\ last.status = "SessionExpired"
    /\ \E token \in last.token : \E pre \in last.pre :
           /\ pre.session_token = None
           /\ token.exp > last.at
           /\ token.iat < last.at

PasswordStepPassed(pre) ==
    LoginOf(pre) /\ ~LockInForce(pre) /\ PasswordMatches(pre)

\* C9: at most one session id per user is accepted: the tokens that
\* validate_session accepts for one user carry one session id, and once a
\* login has passed password verification and stored a fresh session id,
\* every token of an earlier login of that user gets SessionExpired.
C9_OneSession ==
    /\ \A t1 \in issued : \A t2 \in issued :
           (/\ t1.sub = t2.sub
            /\ validate_session(t1)[1] = "Ok"
            /\ validate_session(t2)[1] = "Ok") => t1.session_id = t2.session_id
    /\ \A pre \in last.pre :
           PasswordStepPassed(pre) =>
               \A token \in issued \ last.response.token :
                   token.sub = last.username => Refused(token)

C9_Witness ==
    \E pre \in last.pre :
        /\ PasswordStepPassed(pre)
        /\ \E token \in issued \ last.response.token :
               /\ token.sub = last.username
               /\ pre.session_token = Some(token.session_id)
               /\ \E session_expires_at \in pre.session_expires_at :
                      session_expires_at > last.at

\* The code verified as a TOTP code of the stored secret, or is one of the
\* stored backup codes.
SecondFactorVerified(pre, code) ==
    \/ /\ code.fmt = "digits6"
       /\ \E secret \in pre.two_fa_secret :
              /\ code.secret = secret
              /\ code.step \in {SaturatingSub(last.at, TotpStep) \div TotpStep,
                                last.at \div TotpStep,
                                (last.at + TotpStep) \div TotpStep}
    \/ /\ code.fmt = "alnum8"
       /\ \E stored \in pre.two_fa_backup_codes :
              \E i \in 1..Len(stored) : stored[i] = code.text

\* C10: for a user with two_fa_enabled, authenticate returns an access token
\* only on a code that verified as TOTP for the stored secret or is a stored
\* backup code; without a code it returns token = "", expires_in = 0,
\* requires_two_fa = true and a temp token.
C10_SecondFactorGate ==
    \A pre \in last.pre :
        (LoginOf(pre) /\ pre.two_fa_enabled) =>
            /\ last.response.token # None
                   => \E code \in last.code : SecondFactorVerified(pre, code)
            /\ (PasswordStepPassed(pre) /\ last.code = None)
                   => /\ last.status = "Ok"
                      /\ last.response.token = None
                      /\ last.response.expires_in = 0
                      /\ last.response.requires_two_fa
                      /\ last.response.two_fa_temp_token # None

C10_Witness ==
    \E pre \in last.pre :
        /\ LoginOf(pre) /\ pre.two_fa_enabled
        /\ last.response.token # None
        /\ \E code \in last.code : code.fmt = "alnum8"

\* The password step passed on a row with the second factor on, and the
\* request carried a code that did not verify.
SecondFactorFailed(pre) ==
    /\ PasswordStepPassed(pre)
    /\ pre.two_fa_enabled
    /\ last.code # None
    /\ \A code \in last.code : ~SecondFactorVerified(pre, code)

\* C11: a login whose password verifies but whose second-factor code does not
\* leaves login_attempts higher than it found it, and locks the row when the
\* count reaches the threshold.
C11_SecondFactorFailureCounted ==
    \A pre \in last.pre :
        SecondFactorFailed(pre)
            => /\ last.status = "InvalidCredentials"
               /\ Row.login_attempts > pre.login_attempts
               /\ Row.login_attempts >= LockoutThreshold => Row.is_locked

\* C19: a login that fails on a wrong password appends exactly one
\* LOGIN_ATTEMPT audit event with success = false for that user.
C19_WrongPasswordAudited ==
    \A pre \in last.pre :
        (LoginOf(pre) /\ ~LockInForce(pre) /\ ~PasswordMatches(pre))
            => new_security_events =
                   <<AuditRow("LOGIN_ATTEMPT", last.username, FALSE)>>

\* C20: a login that fails on a wrong or malformed second-factor code, the
\* password having verified, appends exactly one audit event with success =
\* false.
C20_SecondFactorFailureAudited ==
    \A pre \in last.pre :
        SecondFactorFailed(pre)
            => /\ last.status = "InvalidCredentials"
               /\ Len(new_security_events) = 1
               /\ ~new_security_events[1].success

Elems(codes) == {codes[i] : i \in 1..Len(codes)}

PairwiseDistinct(codes) ==
    \A i \in 1..Len(codes) : \A j \in 1..Len(codes) : codes[i] = codes[j] => i = j

\* The latest request was a login that passed the password step on a row with
\* the second factor on and presented the backup-code text c, the row holding
\* `stored` of the pairwise distinct codes `generated` at setup.
BackupCodeLogin(pre, c, stored, generated) ==
    /\ PasswordStepPassed(pre)
    /\ pre.two_fa_enabled
    /\ last.code = Some(BackupCode(c))
    /\ pre.two_fa_backup_codes = Some(stored)
    /\ generated_backup_codes[last.username] = Some(generated)
    /\ PairwiseDistinct(generated)

\* C12: with pairwise distinct backup codes, a code that an earlier login
\* used up is refused with InvalidCredentials and the stored codes stay as
\* they were; a code still stored is accepted and only it is removed, so each
\* other code is still accepted, once.
C12_BackupCodeOnce ==
    \A pre \in last.pre : \A c \in BackupAlphabet :
        \A stored \in pre.two_fa_backup_codes :
            \A generated \in generated_backup_codes[last.username] :
                BackupCodeLogin(pre, c, stored, generated)
                    => /\ Elems(stored) \subseteq Elems(generated)
                       /\ PairwiseDistinct(stored)
                       /\ c \notin Elems(stored)
                              => /\ last.status = "InvalidCredentials"
                                 /\ Row.two_fa_backup_codes = Some(stored)
                       /\ c \in Elems(stored)
                              => /\ last.status = "Ok"
                                 /\ last.response.token # None
                                 /\ \E left \in Row.two_fa_backup_codes :
                                        /\ Elems(left) = Elems(stored) \ {c}
                                        /\ Len(left) = Len(stored) - 1

C12_Witness ==
    \E pre \in last.pre : \E c \in BackupAlphabet :
        \E stored \in pre.two_fa_backup_codes :
            \E generated \in generated_backup_codes[last.username] :
                /\ BackupCodeLogin(pre, c, stored, generated)
                /\ c \in Elems(generated) \ Elems(stored)
                /\ last.status = "InvalidCredentials"

\* C13: for every password p the policy accepts, verify_password(p,
\* hash_password(p)) is true, and for every other p' verify_password(p',
\* hash_password(p)) is the boolean false, not an error.  Stated of the stored
\* digests, each of which hash_password returned.
C13_VerifyAfterHash ==
    \A name \in DOMAIN users :
        LET hash == users[name].password_hash
        IN  /\ hash \in hash_password(hash.pw)
            /\ \A password \in NewPasswords :
                   verify_password(password, hash) =
                       (IF password = hash.pw THEN "Ok(true)" ELSE "Ok(false)")

\* The latest request was change_password for a row that exists.
ChangeOf(pre) == last.op = "change_password" /\ pre \in last.pre

CurrentRight(pre) == pre.password_hash.pw = last.password
Mismatch == last.new_password # last.confirm_password
Weak == last.new_password = WeakPassword
SameAsCurrent(pre) == pre.password_hash.pw = last.new_password

\* C14 as claimed: a change-password request that violates several checks is
\* rejected for new = current first, then for new # confirm, then for
\* strength.
C14_SameAsCurrentFirst ==
    \A pre \in last.pre :
        (ChangeOf(pre) /\ CurrentRight(pre))
            => /\ SameAsCurrent(pre) => last.status = "InternalError"
               /\ (~SameAsCurrent(pre) /\ Mismatch) => last.status = "PasswordMismatch"
               /\ (~SameAsCurrent(pre) /\ ~Mismatch /\ Weak)
                      => last.status = "PasswordTooWeak"

\* C14 as amended: new # confirm is rejected first (PasswordMismatch), also
\* when new = current; then, the current password being right, a weak new
\* password (PasswordTooWeak); new = current is rejected last.
C14_MismatchFirst ==
    \A pre \in last.pre :
        ChangeOf(pre)
            => /\ Mismatch => last.status = "PasswordMismatch"
               /\ (~Mismatch /\ CurrentRight(pre) /\ Weak)
                      => last.status = "PasswordTooWeak"
               /\ (~Mismatch /\ CurrentRight(pre) /\ ~Weak /\ SameAsCurrent(pre))
                      => last.status = "InternalError"

C14_Witness ==
    \E pre \in last.pre :
        /\ ChangeOf(pre) /\ CurrentRight(pre)
        /\ SameAsCurrent(pre) /\ Mismatch
        /\ last.status = "PasswordMismatch"

\* C15: change_password returns the error of the first failing check in the
\* order confirmation mismatch, current password, strength, new = current
\* (an error that is none of the other three), and writes the digest of the
\* new password only when all four pass.
C15_CheckOrder ==
    \A pre \in last.pre :
        ChangeOf(pre)
            => /\ last.status =
                      (IF Mismatch THEN "PasswordMismatch"
                       ELSE IF ~CurrentRight(pre) THEN "InvalidCredentials"
                       ELSE IF Weak THEN "PasswordTooWeak"
                       ELSE IF SameAsCurrent(pre) THEN "InternalError"
                       ELSE "Ok")
               /\ last.status # "Ok" => Row = pre
               /\ last.status = "Ok"
                      => /\ Row.password_hash \in hash_password(last.new_password)
                         /\ Row.password_hash # pre.password_hash

C15_Witness ==
    \E pre \in last.pre :
        /\ ChangeOf(pre) /\ CurrentRight(pre) /\ ~Mismatch /\ ~Weak
        /\ SameAsCurrent(pre)
        /\ last.status = "InternalError"
        /\ Row = pre

\* C16: after change_password succeeds is_temporary_password is false, the
\* new password verifies against the stored digest and the previous password
\* does not.
C16_PasswordReplaced ==
    \A pre \in last.pre :
        (ChangeOf(pre) /\ last.status = "Ok")
            => /\ ~Row.is_temporary_password
               /\ verify_password(last.new_password, Row.password_hash) = "Ok(true)"
               /\ verify_password(pre.password_hash.pw, Row.password_hash) # "Ok(true)"

C16_Witness ==
    \E pre \in last.pre :
        /\ ChangeOf(pre) /\ last.status = "Ok"
        /\ pre.is_temporary_password
        /\ Row.password_hash.pw # pre.password_hash.pw

\* The latest request was validate_token, alone or right after generate_token.
ValidateOf(token) ==
    last.op \in {"generate_token", "validate_token"} /\ token \in last.token

\* C17: validate_token accepts a token this service signed until 60 seconds
\* after its embedded expiry (issue time + 8 hours) and answers TokenExpired
\* at every later time.
C17_LeewayAfterExpiry ==
    \A token \in last.token :
        (ValidateOf(token) /\ token \in issued)
            => /\ token.exp = token.iat + JwtExpirationHours * 3600
               /\ last.at <= token.exp + Leeway => last.status = "Ok"
               /\ last.at > token.exp + Leeway => last.status = "TokenExpired"

C21_EveryChangeAudited ==
    \A pre \in last.pre :
        ChangeOf(pre)
            => /\ Len(new_security_events) = 1
               /\ new_security_events[1].event_type = "PASSWORD_CHANGE"

\* C23: every logout request that reports success, including one made with a
\* correctly signed token whose session is already expired or superseded,
\* leaves the token owner's session_token and session_expires_at null and
\* appends one LOGOUT audit event.
C23_ReportedLogoutClears ==
    \A pre \in last.pre, token \in last.token :
        (last.op = "logout" /\ last.success /\ token.signed)
            => /\ Row.session_token = None
               /\ Row.session_expires_at = None
               /\ Len(new_security_events) = 1
               /\ new_security_events[1].event_type = "LOGOUT"

\* C24: authenticate returns InvalidCredentials for a username that does not
\* exist, the same error value as for a wrong password on an existing user
\* that is not locked out, and modifies no user record.
C24_UnknownUsername ==
    [][last'.op = "authenticate"
           => /\ last'.pre = None
                  => last'.status = "InvalidCredentials" /\ users' = users
              /\ \A pre \in last'.pre :
                     (~LockInForce(pre) /\ ~PasswordMatches(pre))'
                         => last'.status = "InvalidCredentials"]_vars

C24_Witness ==
    /\ last.op = "authenticate"
    /\ last.username \notin DOMAIN users
    /\ last.pre = None
    /\ last.status = "InvalidCredentials"
    /\ \E name \in DOMAIN users : users[name].session_token # None

\* C25: after any sequence of authenticate calls, a row with is_locked = true
\* has lockout_expiry set.
C25_LockedHasExpiry ==
    \A name \in DOMAIN users :
        users[name].is_locked => users[name].lockout_expiry # None

C25_Witness ==
    \E pre \in last.pre :
        /\ LoginOf(pre) /\ ~pre.is_locked
        /\ Row.is_locked
        /\ Row.lockout_expiry = Some(last.at + LockoutMinutes * 60)

\* C26: after any sequence of authenticate and logout calls, session_token is
\* set exactly when session_expires_at is set.
C26_SessionFieldsTogether ==
    \A name \in DOMAIN users :
        users[name].session_token # None <=> users[name].session_expires_at # None

C26_Witness ==
    \E pre \in last.pre :
        /\ last.op = "logout" /\ last.status = "Ok"
        /\ pre.session_token # None /\ pre.session_expires_at # None
        /\ Row.session_token = None /\ Row.session_expires_at = None

\* The result and the user table of the step equal those of eff
SameOutcome(eff) ==
    /\ users' = eff.users
    /\ last'.status = eff.status
    /\ last'.response = eff.response

\* C22: if appending the audit event fails, authenticate, change_password and
\* logout return the same result and leave the same user state as they do
\* when the append succeeds.
C22_AuditFailureHarmless ==
    [][audit_fault
           => /\ \A req \in LoginRequests :
                     Login(req[1], req[2], req[3])
                         => SameOutcome(authenticate(req[1], req[2], req[3]))
              /\ \A token \in issued \cup {ForgedToken} :
                     Logout(token)
                         => SameOutcome(IF validate_session(token)[1] = "Ok"
                                        THEN logout(token.sub)
                                        ELSE Unchanged(validate_session(token)[1]))
              /\ \A pending \in in_flight :
                     ChangePassword(pending)
                         => \E h \in {None} \cup {Some(digest) :
                                          digest \in hash_password(pending.new_password)} :
                                SameOutcome(change_password(
                                    pending.user_id, pending.current_password,
                                    pending.new_password, pending.confirm_password, h))
      ]_vars

C22_Witness ==
    \E pre \in last.pre :
        /\ audit_fault
        /\ last.op = "change_password" /\ last.status = "Ok"
        /\ Row.password_hash # pre.password_hash
        /\ new_security_events = <<>>

\* C27: after any sequence of setup_two_fa and disable_two_fa calls,
\* successful or failed, a row with two_fa_secret set has two_fa_enabled =
\* true.
C27_SecretImpliesEnabled ==
    \A name \in DOMAIN users :
        users[name].two_fa_secret # None => users[name].two_fa_enabled

C27_Witness ==
    \E pre \in last.pre :
        /\ last.op = "disable_two_fa" /\ last.status = "Ok"
        /\ pre.two_fa_enabled /\ pre.two_fa_secret # None
        /\ ~Row.two_fa_enabled /\ Row.two_fa_secret = None

\* The latest request was verify_totp, with the secret the code was generated
\* for, `elapsed` seconds after the time the code was generated for.
VerifyTotpAfter(elapsed) ==
    /\ last.op = "verify_totp"
    /\ \E code \in last.code : code.secret = last.secret
    /\ last.at - last.for_time = elapsed

\* C29: verify_totp accepts a code generated for time T when it is evaluated
\* at T, at T + 30 s and at T - 30 s, and rejects it when evaluated at
\* T + 90 s or T - 90 s (codes of distinct 30-second steps being distinct).
C29_TotpWindow ==
    /\ \A elapsed \in {0, TotpStep, -TotpStep} :
           VerifyTotpAfter(elapsed) => last.status = "Ok(true)"
    /\ \A elapsed \in {3 * TotpStep, -3 * TotpStep} :
           VerifyTotpAfter(elapsed) => last.status = "Ok(false)"

C29_Witness ==
    /\ VerifyTotpAfter(TotpStep)
    /\ last.for_time % TotpStep = TotpStep - 1
    /\ last.status = "Ok(true)"

\* C28: every password generate_temporary_password can return passes
\* validate_password_strength under the same policy: length at least
\* min_length, one character of each of the four classes, no character
\* repeated more than three times in a row, no forbidden pattern
\* case-insensitively.
C28_TemporaryPasswordPasses ==
    \A temp_password \in
           (IF last.op = "initialize_default_user" THEN last.temp_password ELSE {}) :
        ~PolicyErrors(temp_password)

\* C30: initialize_default_user creates exactly one user, with
\* is_temporary_password = true, login_attempts = 0 and not locked, when the
\* users table is empty, and creates none when a user exists; however often
\* it runs, there is never more than one bootstrap account.
C30_OneBootstrapUser ==
    last.op = "initialize_default_user"
        => /\ Cardinality(DOMAIN users) = 1
           /\ \A name \in DOMAIN users :
                  last.user_count = 0
                      => /\ users[name].is_temporary_password
                         /\ users[name].login_attempts = 0
                         /\ ~users[name].is_locked
           /\ \A pre \in last.pre : users[last.username] = pre

\* ---------------------------------------------------------------------------
\* C39: in every reachable state every row has is_locked true exactly when
\* its login_attempts is at least the lockout threshold of five, and false
\* exactly when it is below, and login_attempts is never negative.
C39_LockedIffThreshold ==
    \A name \in DOMAIN users :
        /\ users[name].is_locked <=> users[name].login_attempts >= LockoutThreshold
        /\ users[name].login_attempts >= 0

\* The fifth wrong password in a row has just been counted and has locked
\* the row.
C39_Witness ==
    /\ \E pre \in last.pre :
           /\ LoginOf(pre)
           /\ pre.login_attempts = LockoutThreshold - 1
           /\ ~pre.is_locked
    /\ last.status = "InvalidCredentials"
    /\ Row.login_attempts = LockoutThreshold
    /\ Row.is_locked

\* ---------------------------------------------------------------------------
\* C38: when change_password returns an error, the row of the user is as it
\* was before the call: password digest, is_temporary_password,
\* login_attempts, is_locked, lockout_expiry and the session fields; a wrong
\* current password is not counted as a failed login and locks nothing.
C38_ErrorChangesNothing ==
    \A pre \in last.pre :
        (ChangeOf(pre) /\ last.status # "Ok")
            => /\ Row.password_hash = pre.password_hash
               /\ Row.is_temporary_password = pre.is_temporary_password
               /\ Row.login_attempts = pre.login_attempts
               /\ Row.is_locked = pre.is_locked
               /\ Row.lockout_expiry = pre.lockout_expiry
               /\ Row.session_token = pre.session_token
               /\ Row.session_expires_at = pre.session_expires_at
               /\ new_login_attempts = <<>>

\* change_password has just refused a wrong current password that came with
\* a new password the policy accepts, confirmed.
C38_Witness ==
    \E pre \in last.pre :
        /\ ChangeOf(pre)
        /\ ~CurrentRight(pre)
        /\ ~Mismatch /\ ~Weak
        /\ last.status = "InvalidCredentials"
        /\ Row = pre

\* ---------------------------------------------------------------------------
\* C37: a token a successful login returned is accepted by validate_session
\* during the whole expires_in period the login response announced (28800
\* seconds), provided no logout and no further login came in between, that
\* is, while the row still holds the session this login wrote.
C37_AcceptedWhileExpiresIn ==
    \A token \in last.token : \A pre \in last.pre :
        (/\ last.op = "validate_session"
         /\ token \in issued
         /\ pre.session_token = Some(token.session_id)
         /\ last.at - token.iat < ExpiresIn)
            => last.status = "Ok"

\* ---------------------------------------------------------------------------
\* PasswordService: the strength rating

\* is_common_password: whether the lowercased password contains an entry of
\* its list
is_common_password(chars) ==
    LET common_passwords ==
            {<<"p", "a", "s", "s", "w", "o", "r", "d">>,
             <<"1", "2", "3", "4", "5", "6">>,
             <<"p", "a", "s", "s", "w", "o", "r", "d", "1", "2", "3">>,
             <<"a", "d", "m", "i", "n">>,
             <<"q", "w", "e", "r", "t", "y">>,
             <<"l", "e", "t", "m", "e", "i", "n">>,
             <<"w", "e", "l", "c", "o", "m", "e">>,
             <<"m", "o", "n", "k", "e", "y">>,
             <<"d", "r", "a", "g", "o", "n">>,
             <<"m", "a", "s", "t", "e", "r">>,
             <<"k", "e", "n", "y", "a">>,
             <<"g", "o", "v", "e", "r", "n", "m", "e", "n", "t">>,
             <<"n", "a", "i", "r", "o", "b", "i">>,
             <<"f", "s", "f", "v", "i">>}
    IN  \E common \in common_passwords : Contains(to_lowercase(chars), common)

\* password.chars().any(..) for the four classes of characters
any_char(chars, class) == \E i \in 1..Len(chars) : chars[i] \in class

\* calculate_entropy, in millionths of a bit: the length times f64::log2 of
\* the size of the character set, the logarithm rounded down to millionths
calculate_entropy(chars) ==
    LET charset_size ==
            (IF any_char(chars, LowercaseSet) THEN 26 ELSE 0)
                + (IF any_char(chars, UppercaseSet) THEN 26 ELSE 0)
                + (IF any_char(chars, Numbers) THEN 10 ELSE 0)
                + (IF any_char(chars, SpecialChars) THEN 32 ELSE 0)
        log2 ==
            CASE charset_size = 10 -> 3321928
              [] charset_size = 26 -> 4700439
              [] charset_size = 32 -> 5000000
              [] charset_size = 36 -> 5169925
              [] charset_size = 42 -> 5392317
              [] charset_size = 52 -> 5700439
              [] charset_size = 58 -> 5857980
              [] charset_size = 62 -> 5954196
              [] charset_size = 68 -> 6087462
              [] charset_size = 84 -> 6392317
              [] charset_size = 94 -> 6554588
    IN  IF Len(chars) = 0 \/ charset_size = 0 THEN 0 ELSE Len(chars) * log2

\* rate_password_strength: the score it has summed before its match, and the
\* rating the match gives; the ranges of the match start at 0 and its last
\* arm takes every other score
rate_password_strength(chars) ==
    LET entropy == calculate_entropy(chars)
        length == Len(chars)
        score ==
            (IF length >= 12 THEN 20 ELSE 0)
                + (IF length >= 16 THEN 10 ELSE 0)
                + (IF length >= 20 THEN 10 ELSE 0)
                + (IF any_char(chars, LowercaseSet) THEN 5 ELSE 0)
                + (IF any_char(chars, UppercaseSet) THEN 5 ELSE 0)
                + (IF any_char(chars, Numbers) THEN 5 ELSE 0)
                + (IF any_char(chars, SpecialChars) THEN 10 ELSE 0)
                + (IF entropy >= 60 * 1000000 THEN 20
                   ELSE IF entropy >= 40 * 1000000 THEN 15
                   ELSE IF entropy >= 25 * 1000000 THEN 10
                   ELSE 0)
                - (IF is_common_password(chars) THEN 30 ELSE 0)
                - (IF has_excessive_repeating_chars(chars) THEN 20 ELSE 0)
    IN  [score |-> score,
         rating |-> IF score \in 0..30 THEN "VeryWeak"
                    ELSE IF score \in 31..50 THEN "Weak"
                    ELSE IF score \in 51..70 THEN "Moderate"
                    ELSE IF score \in 71..85 THEN "Strong"
                    ELSE "VeryStrong"]

\* The passwords rated: every string of at most MaxHead characters over one
\* character of each class, alone and followed by one more letter, by a
\* common password, by twelve and by twenty characters of all four classes.
MaxHead == 3
StrengthInputs ==
    LET Heads == UNION {[1..n -> {"a", "K", "7", "!"}] : n \in 0..MaxHead}
        Tails ==
            {<<>>,
             <<"a">>,
             <<"a", "d", "m", "i", "n">>,
             <<"k", "Q", "7", "!", "x", "R", "2", "#", "m", "Z", "5", "$">>,
             <<"k", "Q", "7", "!", "x", "R", "2", "#", "m", "Z", "5", "$",
               "w", "B", "8", "%", "t", "G", "4", "&">>}
    IN  {head \o tail : head \in Heads, tail \in Tails}

\* PasswordService::rate_password_strength called on its own
RatePasswordStrength(chars) ==
    /\ last' = Outcome(Request("rate_password_strength", "", "", None, None, None),
                       rate_password_strength(chars).rating, NoResponse)
                   @@ [chars |-> chars, score |-> rate_password_strength(chars).score]
    /\ new_login_attempts' = <<>>
    /\ new_security_events' = <<>>
    /\ UNCHANGED <<users, now, issued, session_counter, in_flight, wrong_run,
                   generated_backup_codes, audit_fault>>

NextStrength == \E chars \in StrengthInputs : RatePasswordStrength(chars)

SpecStrength == Init /\ [][NextStrength]_vars

\* C40: rate_password_strength maps its score to a rating monotonically:
\* every score up to 30, negative scores included, is rated VeryWeak, and
\* VeryStrong is returned only for a score above 85.
C40_RatingMonotone ==
    last.op = "rate_password_strength"
        => /\ last.score <= 30 => last.status = "VeryWeak"
           /\ last.status = "VeryStrong" => last.score > 85

C35_SessionValidAtMutation ==
    \A pre \in last.pre :
        (/\ last.op \in {"change_password", "setup_two_fa", "disable_two_fa"}
         /\ last.status = "Ok")
            => \E session_token \in pre.session_token :
                   \E session_expires_at \in pre.session_expires_at :
                       session_expires_at > last.at

\* ---------------------------------------------------------------------------
\* C36: prepare_two_fa_setup changes no stored field, and a user who has
\* called it and then submits to setup_two_fa a TOTP code currently valid for
\* the secret it returned gets 2FA enabled with that same secret stored.
C36_PreparedSecretEnabled ==
    \A pre \in last.pre :
        /\ last.op = "prepare_two_fa_setup" => Row = pre
        /\ last.op = "setup_two_fa"
               => \A code \in last.code :
                      code = TotpCode(code.secret, last.at)
                          => /\ last.status = "Ok"
                             /\ Row.two_fa_enabled
                             /\ Row.two_fa_secret = Some(code.secret)

\* ---------------------------------------------------------------------------
\* C31: when authenticate fails with InternalError(detail) because of a storage
\* or crypto fault, the body the login endpoint answers with does not contain
\* the detail text.
C31_DetailNotInBody ==
    (last.op = "authenticate" /\ last.status = "InternalError")
        => /\ ~Contains(last.body.message, last.detail)
           /\ ~Contains(last.body.error_type, last.detail)

C34_OtherRowsUnchanged ==
    [][\A name \in DOMAIN users :
           name # last'.username => users'[name] = users[name]]_vars

\* Both users have a session; the latest request was the logout of one of
\* them, which has cleared that user's session and left the other's.
C34_Witness ==
    /\ last.op = "logout" /\ last.status = "Ok"
    /\ Row.session_token = None
    /\ \E name \in DOMAIN users :
           /\ name # last.username
           /\ users[name].session_token # None

====
